---- MODULE Spec2Model ----
(***************************************************************************)
(* A model of acafeed: the feed registry (acafeed.py, class FeedSource and *)
(* dataclass Feed), the classifier's predict and judge (feedclassifier.py,  *)
(* FeedClassifier), the entry normalizer (entry_parser.py, parse_entries)  *)
(* and the classify-filter-emit part of the command "fetch" (main.py).     *)
(*                                                                         *)
(* Python strings that the code inspects character by character (feed      *)
(* names, search keywords) are sequences of one-character strings; strings *)
(* the code only stores, compares or passes on (links, paths, labels) are  *)
(* TLA+ strings.  None is NoneName for a name and NoneLink for a link.     *)
(***************************************************************************)
EXTENDS Integers, Sequences, FiniteSets, TLC

VARIABLES
    _feeds,       \* FeedSource._feeds: the list of stored objects
    _feed_names,  \* FeedSource._feed_names: the list of names
    clock,        \* the number of datetime.datetime.now() readings so far
    disk,         \* the files load and save work on: path -> file
    call,         \* the most recent call: its arguments, outcome and result
    saved,        \* history: the list the registry held when it last wrote feeds.pkl
    judged,       \* history: the calls of judge that have ended, in order
    main          \* main(), command "fetch": its position and its locals

vars == <<_feeds, _feed_names, clock, disk, call, saved, judged, main>>

(***************************************************************************)
(* Bounds and input sets.                                                  *)
(***************************************************************************)
\* add stops constructing feeds after MaxClock readings of the clock
MaxClock == 2

NoneName == <<"None">>
NoneLink == "None"

\* a value that is not a str (an int) passed where a link is expected
IntLink == "<int 42>"

\* feed names: "a", "A" (differs from "a" only in case) and "ab"
Names == {<<"a">>, <<"A">>, <<"a", "b">>}

\* a value that is not a str (an int) passed where a name is expected
IntName == <<"<int 123>">>

\* names given to add: the feed names and a non-str
AddNames == Names \cup {IntName}

\* links given to add: answered 200 and 410 by the probe, and a non-str
Links == {"u200", "u410", IntLink}

\* new_link values given to change
NewLinks == {NoneLink, "u301"}

\* new_name values given to change
NewNames == {NoneName} \cup Names

\* search keywords: "", "a", "A", "B"
Keywords == {<<>>, <<"a">>, <<"A">>, <<"B">>}

(***************************************************************************)
(* Python values.                                                          *)
(***************************************************************************)
\* a Feed instance with its four fields
Feed(link, name, add_time, last_updated) ==
    [cls |-> "Feed", link |-> link, name |-> name,
     add_time |-> add_time, last_updated |-> last_updated]

\* an object that is not a Feed (an int): it has no attribute `name`
NonFeed == [cls |-> "int"]

IsFeed(x) == x.cls = "Feed"

\* isinstance(v, str) for a link value
isinstance_str(v) == v \notin {IntLink, NoneLink}

\* isinstance(v, str) for a name value
isinstance_str_name(v) == v \notin {IntName, NoneName}

\* datetimes are the readings of the clock, 0, 1, 2, ...; two values that are
\* no datetime: the str "2023-01-01" and None
StrDate == -1
NoneDate == -2

\* isinstance(v, datetime.datetime)
isinstance_datetime(v) == v >= 0

\* a parse result that has no attribute `status`
NoStatus == 0

\* feedparser.parse(link).status: what the probe answers for each link
status(link) ==
    CASE link = "u301" -> 301
      [] link = "u410" -> 410
      [] link = "u404" -> 404
      [] link = "unostatus" -> NoStatus
      [] OTHER -> 200

\* x in lst, for a Python list
InList(x, lst) == \E i \in 1..Len(lst) : lst[i] = x

Min(S) == CHOOSE m \in S : \A k \in S : m <= k

\* lst.pop(i), with i counted from 1
Pop(lst, i) == SubSeq(lst, 1, i - 1) \o SubSeq(lst, i + 1, Len(lst))

\* lst.remove(x): drops the first occurrence (x is in lst)
ListRemove(lst, x) == Pop(lst, Min({i \in 1..Len(lst) : lst[i] = x}))

\* str.lower() on one character, then on a string
LowerChar(c) ==
    CASE c = "A" -> "a"
      [] c = "B" -> "b"
      [] OTHER -> c

Lower(s) == [i \in 1..Len(s) |-> LowerChar(s[i])]

\* needle in hay, for Python strings
Contains(needle, hay) ==
    \E i \in 0..(Len(hay) - Len(needle)) :
        SubSeq(hay, i + 1, i + Len(needle)) = needle

(***************************************************************************)
(* Feed.__post_init__: the checks of the dataclass, in the code's order.   *)
(* The result names the exception raised ("" when construction succeeds),  *)
(* the field a TypeError is about, and whether the link was probed.        *)
(***************************************************************************)
Feed_post_init(link, name, add_time, last_updated) ==
    IF ~isinstance_str(link)
    THEN [raised |-> "TypeError", field |-> "link", probed |-> FALSE, warned |-> FALSE]
    ELSE IF ~isinstance_str_name(name)
    THEN [raised |-> "TypeError", field |-> "name", probed |-> FALSE, warned |-> FALSE]
    ELSE IF ~isinstance_datetime(add_time)
    THEN [raised |-> "TypeError", field |-> "add_time", probed |-> FALSE, warned |-> FALSE]
    ELSE IF ~isinstance_datetime(last_updated)
    THEN [raised |-> "TypeError", field |-> "last_updated", probed |-> FALSE,
          warned |-> FALSE]
    ELSE IF status(link) = NoStatus
    THEN [raised |-> "AttributeError", field |-> "", probed |-> TRUE, warned |-> FALSE]
    ELSE IF status(link) = 301
    THEN [raised |-> "", field |-> "", probed |-> TRUE, warned |-> TRUE]
    ELSE IF status(link) = 410
    THEN [raised |-> "ValueError", field |-> "", probed |-> TRUE, warned |-> FALSE]
    ELSE [raised |-> "", field |-> "", probed |-> TRUE, warned |-> FALSE]

(***************************************************************************)
(* pickle: dump writes one token per stored object between a header and a  *)
(* trailer; load rebuilds the objects from the tokens without calling      *)
(* __post_init__, and fails on anything that is not such a stream.         *)
(***************************************************************************)
Token(op, arg) == [op |-> op, arg |-> arg]

PickleItem(x) ==
    IF IsFeed(x)
    THEN Token("Feed", <<x.link, x.name, x.add_time, x.last_updated>>)
    ELSE Token("int", <<>>)

pickle_dump(obj) ==
    <<Token("PROTO", <<>>)>> \o [i \in 1..Len(obj) |-> PickleItem(obj[i])]
        \o <<Token("STOP", <<>>)>>

UnpickleItem(t) ==
    IF t.op = "Feed" THEN Feed(t.arg[1], t.arg[2], t.arg[3], t.arg[4])
    ELSE NonFeed

\* whether pickle.load accepts the bytes
IsPickle(bytes) ==
    /\ Len(bytes) >= 2
    /\ bytes[1].op = "PROTO"
    /\ bytes[Len(bytes)].op = "STOP"
    /\ \A i \in 2..(Len(bytes) - 1) : bytes[i].op \in {"Feed", "int"}

pickle_load(bytes) == [i \in 1..(Len(bytes) - 2) |-> UnpickleItem(bytes[i + 1])]

(***************************************************************************)
(* The files.                                                              *)
(***************************************************************************)
NoFile == [exists |-> FALSE, bytes |-> <<>>]
File(bytes) == [exists |-> TRUE, bytes |-> bytes]

\* a text file: "This is not pickle data"
TextFile == File(<<Token("text", <<>>)>>)

\* the pickle of a list that is not a list of Feed records:
\* [5, Feed("u200", "a", 0, 0)]
MixedFile == File(pickle_dump(<<NonFeed, Feed("u200", <<"a">>, 0, 0)>>))

\* a path in a directory that does not exist: nothing can be written there
InvalidPath == "/invalid/path/file.pkl"

SavePaths == {"feeds.pkl", InvalidPath}
LoadPaths == {"feeds.pkl", "text.txt", "mixed.pkl"}
Paths == SavePaths \cup LoadPaths

InitDisk ==
    [p \in Paths |->
        CASE p = "text.txt" -> TextFile
          [] p = "mixed.pkl" -> MixedFile
          [] OTHER -> NoFile]

(***************************************************************************)
(* The record of a call.                                                   *)
(***************************************************************************)
NoCall ==
    [op |-> "", name |-> NoneName, link |-> NoneLink, new_link |-> NoneLink,
     new_name |-> NoneName, keyword |-> NoneName, filepath |-> "",
     classes |-> <<>>, results |-> <<>>,
     add_time |-> 0, last_updated |-> 0, field |-> "",
     probed |-> FALSE, warned |-> FALSE, retry |-> FALSE,
     id2label |-> <<>>, titles |-> <<>>, probs |-> <<>>,
     return_all_scores |-> FALSE, top_k |-> 0,
     outcome |-> "", ret |-> <<>>]

\* main() before the command "fetch" reaches the classifier
NotRunning ==
    [pc |-> "", interests |-> <<>>, entries |-> <<>>, probs |-> <<>>,
     classifier |-> <<>>, predict_calls |-> <<>>, entry_titles |-> <<>>,
     results |-> <<>>, judgments |-> <<>>, filtered_entries |-> <<>>,
     raised |-> "", pushed |-> <<>>]

(***************************************************************************)
(* FeedSource.                                                             *)
(***************************************************************************)
Init ==
    /\ _feeds = <<>>
    /\ _feed_names = <<>>
    /\ clock = 0
    /\ disk = InitDisk
    /\ call = NoCall
    /\ saved = <<>>
    /\ judged = <<>>
    /\ main = NotRunning

\* FeedSource(): a fresh registry
FeedSource_init ==
    /\ _feeds' = <<>>
    /\ _feed_names' = <<>>
    /\ call' = [NoCall EXCEPT !.op = "FeedSource"]
    /\ UNCHANGED <<clock, disk, saved, judged, main>>

\* the index where `for feed in self._feeds: if feed.name == name` stops:
\* the first object that is the named feed or has no attribute `name`;
\* 0 when the loop runs to its end
FirstHit(feeds, name) ==
    LET S == {i \in 1..Len(feeds) : ~IsFeed(feeds[i]) \/ feeds[i].name = name}
    IN  IF S = {} THEN 0 ELSE Min(S)

\* add with the name put into the index before the Feed is constructed: a
\* construction that fails leaves the name behind
add_reserving_name(link, name) ==
    LET c == [NoCall EXCEPT !.op = "add", !.link = link, !.name = name,
                            !.retry = /\ call.op = "add"
                                      /\ call.name = name
                                      /\ call.outcome \in {"TypeError", "ValueError",
                                                           "AttributeError"}]
    IN
    IF InList(name, _feed_names)
    THEN /\ call' = [c EXCEPT !.outcome = "in_use"]
         /\ UNCHANGED <<_feeds, _feed_names, clock, disk, saved, judged, main>>
    ELSE /\ clock < MaxClock
         /\ clock' = clock + 1
         /\ _feed_names' = Append(_feed_names, name)
         /\ LET now == clock + 1
                made == Feed_post_init(link, name, now, now)
            IN  IF made.raised # ""
                THEN /\ call' = [c EXCEPT !.outcome = made.raised,
                                          !.probed = made.probed]
                     /\ UNCHANGED _feeds
                ELSE /\ _feeds' = Append(_feeds, Feed(link, name, now, now))
                     /\ call' = [c EXCEPT !.outcome = "added", !.probed = made.probed]
         /\ UNCHANGED <<disk, saved, judged, main>>

\* add that constructs and validates the Feed before it looks at the index
add_constructing_first(link, name) ==
    LET c == [NoCall EXCEPT !.op = "add", !.link = link, !.name = name,
                            !.retry = /\ call.op = "add"
                                      /\ call.name = name
                                      /\ call.outcome \in {"TypeError", "ValueError",
                                                           "AttributeError"}]
    IN  /\ clock < MaxClock
        /\ clock' = clock + 1
        /\ LET now == clock + 1
               made == Feed_post_init(link, name, now, now)
           IN  IF made.raised # ""
               THEN /\ call' = [c EXCEPT !.outcome = made.raised,
                                         !.probed = made.probed]
                    /\ UNCHANGED <<_feeds, _feed_names>>
               ELSE IF InList(name, _feed_names)
               THEN /\ call' = [c EXCEPT !.outcome = "in_use", !.probed = made.probed]
                    /\ UNCHANGED <<_feeds, _feed_names>>
               ELSE /\ _feeds' = Append(_feeds, Feed(link, name, now, now))
                    /\ _feed_names' = Append(_feed_names, name)
                    /\ call' = [c EXCEPT !.outcome = "added", !.probed = made.probed]
        /\ UNCHANGED <<disk, saved, judged, main>>

\* the call record notes (retry) whether the call before was an add of the
\* same name that ended in an exception, and (probed) whether the call reached
\* feedparser.parse
add(link, name) ==
    LET c == [NoCall EXCEPT !.op = "add", !.link = link, !.name = name,
                            !.retry = /\ call.op = "add"
                                      /\ call.name = name
                                      /\ call.outcome \in {"TypeError", "ValueError",
                                                           "AttributeError"}]
    IN
    IF InList(name, _feed_names)
    THEN /\ call' = [c EXCEPT !.outcome = "in_use"]
         /\ UNCHANGED <<_feeds, _feed_names, clock, disk, saved, judged, main>>
    ELSE /\ clock < MaxClock
         /\ clock' = clock + 1
         /\ LET now == clock + 1
                made == Feed_post_init(link, name, now, now)
            IN  IF made.raised # ""
                THEN /\ call' = [c EXCEPT !.outcome = made.raised,
                                          !.probed = made.probed]
                     /\ UNCHANGED <<_feeds, _feed_names>>
                ELSE /\ _feeds' = Append(_feeds, Feed(link, name, now, now))
                     /\ _feed_names' = Append(_feed_names, name)
                     /\ call' = [c EXCEPT !.outcome = "added", !.probed = made.probed]
         /\ UNCHANGED <<disk, saved, judged, main>>

remove(name) ==
    LET c == [NoCall EXCEPT !.op = "remove", !.name = name]
        i == FirstHit(_feeds, name)
    IN  /\ UNCHANGED <<clock, disk, saved, judged, main>>
        /\ IF i = 0
           THEN /\ call' = [c EXCEPT !.outcome = "not_found"]
                /\ UNCHANGED <<_feeds, _feed_names>>
           ELSE IF ~IsFeed(_feeds[i])
           THEN /\ call' = [c EXCEPT !.outcome = "AttributeError"]
                /\ UNCHANGED <<_feeds, _feed_names>>
           ELSE /\ _feeds' = Pop(_feeds, i)
                /\ IF InList(name, _feed_names)
                   THEN /\ _feed_names' = ListRemove(_feed_names, name)
                        /\ call' = [c EXCEPT !.outcome = "removed"]
                   ELSE /\ _feed_names' = _feed_names
                        /\ call' = [c EXCEPT !.outcome = "ValueError"]

\* change that records a requested new name even when it finds no feed to
\* rename
change_indexing_unknown(name, new_link, new_name) ==
    LET c == [NoCall EXCEPT !.op = "change", !.name = name,
                            !.new_link = new_link, !.new_name = new_name]
        i == FirstHit(_feeds, name)
    IN  /\ UNCHANGED <<clock, disk, saved, judged, main>>
        /\ IF new_link = NoneLink /\ new_name = NoneName
           THEN /\ call' = [c EXCEPT !.outcome = "no_changes"]
                /\ UNCHANGED <<_feeds, _feed_names>>
           ELSE IF i = 0
           THEN /\ call' = [c EXCEPT !.outcome = "returned"]
                /\ _feeds' = _feeds
                /\ _feed_names' = IF new_name = NoneName \/ InList(new_name, _feed_names)
                                  THEN _feed_names
                                  ELSE Append(_feed_names, new_name)
           ELSE IF ~IsFeed(_feeds[i])
           THEN /\ call' = [c EXCEPT !.outcome = "AttributeError"]
                /\ UNCHANGED <<_feeds, _feed_names>>
           ELSE LET linked == IF new_link # NoneLink
                              THEN [_feeds EXCEPT ![i].link = new_link]
                              ELSE _feeds
                IN  IF new_name = NoneName
                    THEN /\ _feeds' = linked
                         /\ _feed_names' = _feed_names
                         /\ call' = [c EXCEPT !.outcome = "updated"]
                    ELSE IF InList(new_name, _feed_names)
                    THEN /\ _feeds' = linked
                         /\ _feed_names' = _feed_names
                         /\ call' = [c EXCEPT !.outcome = "in_use"]
                    ELSE /\ _feeds' = [linked EXCEPT ![i].name = new_name]
                         /\ IF InList(name, _feed_names)
                            THEN /\ _feed_names' =
                                      Append(ListRemove(_feed_names, name), new_name)
                                 /\ call' = [c EXCEPT !.outcome = "updated"]
                            ELSE /\ _feed_names' = _feed_names
                                 /\ call' = [c EXCEPT !.outcome = "ValueError"]

\* change that stamps the feed when it assigns a new link: last_updated moves on
change_touching(name, new_link, new_name) ==
    LET c == [NoCall EXCEPT !.op = "change", !.name = name,
                            !.new_link = new_link, !.new_name = new_name]
        i == FirstHit(_feeds, name)
    IN  /\ UNCHANGED <<clock, disk, saved, judged, main>>
        /\ IF new_link = NoneLink /\ new_name = NoneName
           THEN /\ call' = [c EXCEPT !.outcome = "no_changes"]
                /\ UNCHANGED <<_feeds, _feed_names>>
           ELSE IF i = 0
           THEN /\ call' = [c EXCEPT !.outcome = "returned"]
                /\ UNCHANGED <<_feeds, _feed_names>>
           ELSE IF ~IsFeed(_feeds[i])
           THEN /\ call' = [c EXCEPT !.outcome = "AttributeError"]
                /\ UNCHANGED <<_feeds, _feed_names>>
           ELSE LET linked == IF new_link # NoneLink
                              THEN [_feeds EXCEPT ![i].link = new_link,
                                                 ![i].last_updated = @ + 1]
                              ELSE _feeds
                IN  IF new_name = NoneName
                    THEN /\ _feeds' = linked
                         /\ _feed_names' = _feed_names
                         /\ call' = [c EXCEPT !.outcome = "updated"]
                    ELSE IF InList(new_name, _feed_names)
                    THEN /\ _feeds' = linked
                         /\ _feed_names' = _feed_names
                         /\ call' = [c EXCEPT !.outcome = "in_use"]
                    ELSE /\ _feeds' = [linked EXCEPT ![i].name = new_name]
                         /\ IF InList(name, _feed_names)
                            THEN /\ _feed_names' =
                                      Append(ListRemove(_feed_names, name), new_name)
                                 /\ call' = [c EXCEPT !.outcome = "updated"]
                            ELSE /\ _feed_names' = _feed_names
                                 /\ call' = [c EXCEPT !.outcome = "ValueError"]

change(name, new_link, new_name) ==
    LET c == [NoCall EXCEPT !.op = "change", !.name = name,
                            !.new_link = new_link, !.new_name = new_name]
        i == FirstHit(_feeds, name)
    IN  /\ UNCHANGED <<clock, disk, saved, judged, main>>
        /\ IF new_link = NoneLink /\ new_name = NoneName
           THEN /\ call' = [c EXCEPT !.outcome = "no_changes"]
                /\ UNCHANGED <<_feeds, _feed_names>>
           ELSE IF i = 0
           THEN /\ call' = [c EXCEPT !.outcome = "returned"]
                /\ UNCHANGED <<_feeds, _feed_names>>
           ELSE IF ~IsFeed(_feeds[i])
           THEN /\ call' = [c EXCEPT !.outcome = "AttributeError"]
                /\ UNCHANGED <<_feeds, _feed_names>>
           ELSE LET linked == IF new_link # NoneLink
                              THEN [_feeds EXCEPT ![i].link = new_link]
                              ELSE _feeds
                IN  IF new_name = NoneName
                    THEN /\ _feeds' = linked
                         /\ _feed_names' = _feed_names
                         /\ call' = [c EXCEPT !.outcome = "updated"]
                    ELSE IF InList(new_name, _feed_names)
                    THEN /\ _feeds' = linked
                         /\ _feed_names' = _feed_names
                         /\ call' = [c EXCEPT !.outcome = "in_use"]
                    ELSE /\ _feeds' = [linked EXCEPT ![i].name = new_name]
                         /\ IF InList(name, _feed_names)
                            THEN /\ _feed_names' =
                                      Append(ListRemove(_feed_names, name), new_name)
                                 /\ call' = [c EXCEPT !.outcome = "updated"]
                            ELSE /\ _feed_names' = _feed_names
                                 /\ call' = [c EXCEPT !.outcome = "ValueError"]

search(keyword) ==
    LET c == [NoCall EXCEPT !.op = "search", !.keyword = keyword]
        Match(feed) == Contains(Lower(keyword), Lower(feed.name))
    IN  /\ UNCHANGED <<_feeds, _feed_names, clock, disk, saved, judged, main>>
        /\ IF \E i \in 1..Len(_feeds) : ~IsFeed(_feeds[i])
           THEN call' = [c EXCEPT !.outcome = "AttributeError"]
           ELSE call' = [c EXCEPT !.outcome = "returned",
                                  !.ret = SelectSeq(_feeds, Match)]

load(filepath) ==
    LET c == [NoCall EXCEPT !.op = "load", !.filepath = filepath]
        f == disk[filepath]
    IN  /\ UNCHANGED <<clock, disk, saved, judged, main>>
        /\ IF ~f.exists
           THEN /\ call' = [c EXCEPT !.outcome = "file_not_found"]
                /\ UNCHANGED <<_feeds, _feed_names>>
           ELSE IF ~IsPickle(f.bytes)
           THEN /\ call' = [c EXCEPT !.outcome = "load_error"]
                /\ UNCHANGED <<_feeds, _feed_names>>
           ELSE LET obj == pickle_load(f.bytes) IN
                /\ _feeds' = obj
                /\ IF \E i \in 1..Len(obj) : ~IsFeed(obj[i])
                   THEN /\ _feed_names' = _feed_names
                        /\ call' = [c EXCEPT !.outcome = "load_error"]
                   ELSE /\ _feed_names' = [i \in 1..Len(obj) |-> obj[i].name]
                        /\ call' = [c EXCEPT !.outcome = "loaded"]

save(filepath) ==
    LET c == [NoCall EXCEPT !.op = "save", !.filepath = filepath] IN
    /\ UNCHANGED <<_feeds, _feed_names, clock, judged, main>>
    /\ IF filepath = InvalidPath
       THEN /\ call' = [c EXCEPT !.outcome = "save_error"]
            /\ UNCHANGED <<disk, saved>>
       ELSE /\ disk' = [disk EXCEPT ![filepath] = File(pickle_dump(_feeds))]
            /\ saved' = _feeds
            /\ call' = [c EXCEPT !.outcome = "saved"]

\* feedparser.parse(link) as fetch uses it: the parsed feed found at the link
feedparser_parse(link) == <<"FeedParserDict", link>>

\* the None that fetch returns
NoneResult == <<"None">>

fetch(name) ==
    LET c == [NoCall EXCEPT !.op = "fetch", !.name = name]
        i == FirstHit(_feeds, name)
    IN  /\ UNCHANGED <<_feeds, _feed_names, clock, disk, saved, judged, main>>
        /\ IF ~InList(name, _feed_names)
           THEN call' = [c EXCEPT !.outcome = "not_found", !.ret = NoneResult]
           ELSE IF i = 0
           THEN call' = [c EXCEPT !.outcome = "returned", !.ret = NoneResult]
           ELSE IF ~IsFeed(_feeds[i])
           THEN call' = [c EXCEPT !.outcome = "AttributeError"]
           ELSE call' = [c EXCEPT !.outcome = "returned",
                                  !.link = _feeds[i].link,
                                  !.probed = TRUE,
                                  !.ret = feedparser_parse(_feeds[i].link)]

Next ==
    \/ FeedSource_init
    \/ \E link \in Links, name \in AddNames : add(link, name)
    \/ \E name \in Names : remove(name)
    \/ \E name \in Names, new_link \in NewLinks, new_name \in NewNames :
           change(name, new_link, new_name)
    \/ \E keyword \in Keywords : search(keyword)
    \/ \E filepath \in LoadPaths : load(filepath)
    \/ \E filepath \in SavePaths : save(filepath)
    \/ \E name \in Names : fetch(name)

Spec == Init /\ [][Next]_vars

\* a registry that is never loaded from a file
NextWithoutLoad ==
    \/ FeedSource_init
    \/ \E link \in Links, name \in AddNames : add(link, name)
    \/ \E name \in Names : remove(name)
    \/ \E name \in Names, new_link \in NewLinks, new_name \in NewNames :
           change(name, new_link, new_name)
    \/ \E keyword \in Keywords : search(keyword)
    \/ \E filepath \in SavePaths : save(filepath)
    \/ \E name \in Names : fetch(name)

SpecWithoutLoad == Init /\ [][NextWithoutLoad]_vars

(***************************************************************************)
(* Feed(...): the construction of one Feed from any four arguments.        *)
(***************************************************************************)
\* link arguments: probed as 200, 301, 410, 404 and without a status, the
\* empty string (probed as 200), an int and None
FeedLinks == {"u200", "u301", "u410", "u404", "unostatus", "", IntLink, NoneLink}

\* name arguments: "", "a", an int and None
FeedNames == {<<>>, <<"a">>, IntName, NoneName}

\* add_time and last_updated arguments: two datetimes, a str and None
FeedTimes == {0, 1, StrDate, NoneDate}

\* a construction that has not run yet
InitFeed ==
    /\ _feeds = <<>>
    /\ _feed_names = <<>>
    /\ clock = 0
    /\ disk = InitDisk
    /\ saved = <<>>
    /\ judged = <<>>
    /\ main = NotRunning
    /\ \E link \in FeedLinks, name \in FeedNames, add_time \in FeedTimes,
          last_updated \in FeedTimes :
           call = [NoCall EXCEPT !.op = "Feed", !.link = link, !.name = name,
                                 !.add_time = add_time, !.last_updated = last_updated,
                                 !.outcome = "called"]

\* the generated __init__ stores the four arguments and runs __post_init__
Construct ==
    /\ call.op = "Feed"
    /\ call.outcome = "called"
    /\ LET made == Feed_post_init(call.link, call.name, call.add_time, call.last_updated)
       IN  call' = [call EXCEPT
                       !.outcome = IF made.raised = "" THEN "created" ELSE made.raised,
                       !.field = made.field,
                       !.probed = made.probed,
                       !.warned = made.warned,
                       !.ret = IF made.raised = ""
                               THEN <<Feed(call.link, call.name, call.add_time,
                                           call.last_updated)>>
                               ELSE <<>>]
    /\ UNCHANGED <<_feeds, _feed_names, clock, disk, saved, judged, main>>

NextFeed == Construct

SpecFeed == InitFeed /\ [][NextFeed]_vars

(***************************************************************************)
(* FeedClassifier.judge.  A specifier or topic name is a sequence of       *)
(* chunks: "+Computer Vision" is <<"+", "Computer Vision">>, "" is <<>>.   *)
(***************************************************************************)
\* the specifier lists judge is given hold at most MaxClasses specifiers
MaxClasses == 3

\* the batches judge is given hold at most MaxResults results
MaxResults == 2

\* arxiv_abbr(): the table from topic code to full topic name
abbr_table ==
    ("cs.CV" :> <<"Computer Vision">>) @@ ("cs.LG" :> <<"Machine Learning">>)
        @@ ("q-bio.BM" :> <<"Biology">>)
        @@ ("cs.AI" :> <<"Artificial Intelligence">>)
        @@ ("cs.CL" :> <<"Computation and Language">>)
        @@ ("math.ST" :> <<"Statistics Theory">>)

\* abbr_table.values()
abbr_values == {abbr_table[code] : code \in DOMAIN abbr_table}

\* top_labels of a result predict made without return_all_scores
NoTopLabels == <<[label |-> "<None>"]>>

PredictionLabel(label) == [label |-> label]

PredictionResult(title, top_labels) == [title |-> title, top_labels |-> top_labels]

\* cls.startswith(ch)
startswith(cls, ch) == Len(cls) >= 1 /\ cls[1] = ch

\* the branch of the parsing loop a specifier takes, and the name it checks
class_kind(cls) ==
    IF startswith(cls, "+") THEN "and"
    ELSE IF startswith(cls, "-") THEN "not"
    ELSE "or"

class_name(cls) == IF class_kind(cls) = "or" THEN cls ELSE Tail(cls)

\* the names the parsing loop appends to or_classes, and_classes, not_classes
classes_of(kind, classes) ==
    LET OfKind(cls) == class_kind(cls) = kind
        kept == SelectSeq(classes, OfKind)
    IN  [i \in 1..Len(kept) |-> class_name(kept[i])]

\* judge_result with the OR test ahead of the NOT test: a matching OR topic
\* settles the judgment before the exclusions are looked at
judge_result_or_first(or_classes, and_classes, not_classes, result) ==
    LET top_label_names ==
            [i \in 1..Len(result.top_labels) |-> abbr_table[result.top_labels[i].label]]
        has_excluded ==
            \E i \in 1..Len(not_classes) : InList(not_classes[i], top_label_names)
        has_all_required ==
            \A i \in 1..Len(and_classes) : InList(and_classes[i], top_label_names)
        has_any_or ==
            \E i \in 1..Len(or_classes) : InList(or_classes[i], top_label_names)
    IN  IF has_any_or THEN TRUE
        ELSE IF has_excluded THEN FALSE
        ELSE IF ~has_all_required THEN FALSE
        ELSE Len(or_classes) = 0

\* judge_result with the OR test ahead of the AND test: after the exclusions,
\* a matching OR topic settles the judgment before the required topics are
\* looked at
judge_result_or_before_and(or_classes, and_classes, not_classes, result) ==
    LET top_label_names ==
            [i \in 1..Len(result.top_labels) |-> abbr_table[result.top_labels[i].label]]
        has_excluded ==
            \E i \in 1..Len(not_classes) : InList(not_classes[i], top_label_names)
        has_all_required ==
            \A i \in 1..Len(and_classes) : InList(and_classes[i], top_label_names)
        has_any_or ==
            \E i \in 1..Len(or_classes) : InList(or_classes[i], top_label_names)
    IN  IF has_excluded THEN FALSE
        ELSE IF has_any_or THEN TRUE
        ELSE IF ~has_all_required THEN FALSE
        ELSE Len(or_classes) = 0

\* judge_result without the branch for an empty or_classes: the OR test is
\* made whether or not OR topics were given
judge_result_or_required(or_classes, and_classes, not_classes, result) ==
    LET top_label_names ==
            [i \in 1..Len(result.top_labels) |-> abbr_table[result.top_labels[i].label]]
        has_excluded ==
            \E i \in 1..Len(not_classes) : InList(not_classes[i], top_label_names)
        has_all_required ==
            \A i \in 1..Len(and_classes) : InList(and_classes[i], top_label_names)
        has_any_or ==
            \E i \in 1..Len(or_classes) : InList(or_classes[i], top_label_names)
    IN  IF has_excluded THEN FALSE
        ELSE IF ~has_all_required THEN FALSE
        ELSE has_any_or

\* the judgment of one result that has top_labels, all of them in the table
judge_result(or_classes, and_classes, not_classes, result) ==
    LET top_label_names ==
            [i \in 1..Len(result.top_labels) |-> abbr_table[result.top_labels[i].label]]
        has_excluded ==
            \E i \in 1..Len(not_classes) : InList(not_classes[i], top_label_names)
        has_all_required ==
            \A i \in 1..Len(and_classes) : InList(and_classes[i], top_label_names)
        has_any_or ==
            \E i \in 1..Len(or_classes) : InList(or_classes[i], top_label_names)
    IN  IF has_excluded THEN FALSE
        ELSE IF ~has_all_required THEN FALSE
        ELSE IF Len(or_classes) > 0 THEN has_any_or
        ELSE TRUE

\* judge with the loop over the results ahead of the loop over the specifiers:
\* a result is examined before the specifier list is validated
judge_results_first(classes, results) ==
    LET invalid == {i \in 1..Len(classes) : class_name(classes[i]) \notin abbr_values}
        failing == {i \in 1..Len(results) :
                        \/ results[i].top_labels = NoTopLabels
                        \/ \E k \in 1..Len(results[i].top_labels) :
                               results[i].top_labels[k].label \notin DOMAIN abbr_table}
    IN  IF failing # {}
        THEN [raised |-> IF results[Min(failing)].top_labels = NoTopLabels
                         THEN "AssertionError" ELSE "KeyError",
              about |-> <<>>, judgments |-> <<>>]
        ELSE IF invalid # {}
        THEN [raised |-> "ValueError", about |-> class_name(classes[Min(invalid)]),
              judgments |-> <<>>]
        ELSE [raised |-> "", about |-> <<>>,
              judgments |-> [i \in 1..Len(results) |->
                                judge_result(classes_of("or", classes),
                                             classes_of("and", classes),
                                             classes_of("not", classes),
                                             results[i])]]

\* judge without the assertion on top_labels: a result that has none is
\* judged False like a result that matches nothing
judge_absent_is_false(classes, results) ==
    LET invalid == {i \in 1..Len(classes) : class_name(classes[i]) \notin abbr_values}
        failing == {i \in 1..Len(results) :
                        /\ results[i].top_labels # NoTopLabels
                        /\ \E k \in 1..Len(results[i].top_labels) :
                               results[i].top_labels[k].label \notin DOMAIN abbr_table}
    IN  IF invalid # {}
        THEN [raised |-> "ValueError", about |-> class_name(classes[Min(invalid)]),
              judgments |-> <<>>]
        ELSE IF failing # {}
        THEN [raised |-> "KeyError", about |-> <<>>, judgments |-> <<>>]
        ELSE [raised |-> "", about |-> <<>>,
              judgments |-> [i \in 1..Len(results) |->
                                IF results[i].top_labels = NoTopLabels THEN FALSE
                                ELSE judge_result(classes_of("or", classes),
                                                  classes_of("and", classes),
                                                  classes_of("not", classes),
                                                  results[i])]]

\* judge with a judgments list that outlives the call (a list shared by all
\* calls): the judgments of a call are appended to those of the calls before
judge_shared_judgments(classes, results) ==
    LET invalid == {i \in 1..Len(classes) : class_name(classes[i]) \notin abbr_values}
        failing == {i \in 1..Len(results) :
                        \/ results[i].top_labels = NoTopLabels
                        \/ \E k \in 1..Len(results[i].top_labels) :
                               results[i].top_labels[k].label \notin DOMAIN abbr_table}
        earlier == IF Len(judged) = 0 THEN <<>> ELSE judged[Len(judged)].ret
    IN  IF invalid # {}
        THEN [raised |-> "ValueError", about |-> class_name(classes[Min(invalid)]),
              judgments |-> <<>>]
        ELSE IF failing # {}
        THEN [raised |-> IF results[Min(failing)].top_labels = NoTopLabels
                         THEN "AssertionError" ELSE "KeyError",
              about |-> <<>>, judgments |-> <<>>]
        ELSE [raised |-> "", about |-> <<>>,
              judgments |-> earlier \o
                            [i \in 1..Len(results) |->
                                judge_result(classes_of("or", classes),
                                             classes_of("and", classes),
                                             classes_of("not", classes),
                                             results[i])]]

\* judge: what it raises ("" when it returns) and the judgments it returns
judge(classes, results) ==
    LET invalid == {i \in 1..Len(classes) : class_name(classes[i]) \notin abbr_values}
        failing == {i \in 1..Len(results) :
                        \/ results[i].top_labels = NoTopLabels
                        \/ \E k \in 1..Len(results[i].top_labels) :
                               results[i].top_labels[k].label \notin DOMAIN abbr_table}
    IN  IF invalid # {}
        THEN [raised |-> "ValueError", about |-> class_name(classes[Min(invalid)]),
              judgments |-> <<>>]
        ELSE IF failing # {}
        THEN [raised |-> IF results[Min(failing)].top_labels = NoTopLabels
                         THEN "AssertionError" ELSE "KeyError",
              about |-> <<>>, judgments |-> <<>>]
        ELSE [raised |-> "", about |-> <<>>,
              judgments |-> [i \in 1..Len(results) |->
                                judge_result(classes_of("or", classes),
                                             classes_of("and", classes),
                                             classes_of("not", classes),
                                             results[i])]]

\* the inputs
Topics == {<<"Computer Vision">>, <<"Machine Learning">>, <<"Biology">>}

\* the valid specifiers, and two that name no topic of the table
Specifiers ==
    Topics \cup {<<"+">> \o t : t \in Topics} \cup {<<"-">> \o t : t \in Topics}
        \cup {<<"Robotics">>, <<"-", "Quantum">>}

\* top_labels: absent, empty, lists of known codes, a list with an unknown code
TopLabelLists ==
    {NoTopLabels, <<>>,
     <<PredictionLabel("cs.CV"), PredictionLabel("q-bio.BM")>>,
     <<PredictionLabel("cs.CV"), PredictionLabel("cs.LG")>>,
     <<PredictionLabel("label_0")>>}

SeqsUpTo(S, n) == UNION {[1..k -> S] : k \in 0..n}

ClassLists == SeqsUpTo(Specifiers, MaxClasses)

Batches == SeqsUpTo({PredictionResult("t", labels) : labels \in TopLabelLists}, MaxResults)

\* a call of judge that has not run yet
InitJudge ==
    /\ _feeds = <<>>
    /\ _feed_names = <<>>
    /\ clock = 0
    /\ disk = InitDisk
    /\ saved = <<>>
    /\ judged = <<>>
    /\ main = NotRunning
    /\ \E classes \in ClassLists, results \in Batches :
           call = [NoCall EXCEPT !.op = "judge", !.classes = classes,
                                 !.results = results, !.outcome = "called"]

Judge ==
    /\ call.op = "judge"
    /\ call.outcome = "called"
    /\ LET r == judge(call.classes, call.results)
       IN  call' = [call EXCEPT !.outcome = IF r.raised = "" THEN "returned" ELSE r.raised,
                                !.name = r.about,
                                !.ret = r.judgments]
    /\ judged' = Append(judged, call')
    /\ UNCHANGED <<_feeds, _feed_names, clock, disk, saved, main>>

NextJudge == Judge

SpecJudge == InitJudge /\ [][NextJudge]_vars

(***************************************************************************)
(* One classifier judging several times in a row.                          *)
(***************************************************************************)
\* the classifier is called at most MaxCalls times
MaxCalls == 3

\* the specifier lists and the batches of the repeated calls
AgainClassLists ==
    {<<>>, <<<<"Computer Vision">>>>, <<<<"+", "Machine Learning">>>>,
     <<<<"Computer Vision">>, <<"-", "Biology">>>>, <<<<"Robotics">>>>}

AgainBatches ==
    {<<>>,
     <<PredictionResult("t", <<PredictionLabel("cs.CV"), PredictionLabel("q-bio.BM")>>)>>,
     <<PredictionResult("t", <<PredictionLabel("cs.CV"), PredictionLabel("cs.LG")>>),
       PredictionResult("t", <<PredictionLabel("cs.CV"), PredictionLabel("q-bio.BM")>>)>>,
     <<PredictionResult("t", NoTopLabels)>>}

InitAgain ==
    /\ _feeds = <<>>
    /\ _feed_names = <<>>
    /\ clock = 0
    /\ disk = InitDisk
    /\ saved = <<>>
    /\ judged = <<>>
    /\ main = NotRunning
    /\ call = NoCall

\* the caller hands a specifier list and a batch to judge
JudgeCall(classes, results) ==
    /\ call.outcome # "called"
    /\ Len(judged) < MaxCalls
    /\ call' = [NoCall EXCEPT !.op = "judge", !.classes = classes,
                              !.results = results, !.outcome = "called"]
    /\ UNCHANGED <<_feeds, _feed_names, clock, disk, saved, judged, main>>

NextAgain ==
    \/ \E classes \in AgainClassLists, results \in AgainBatches :
           JudgeCall(classes, results)
    \/ Judge

SpecJudgeAgain == InitAgain /\ [][NextAgain]_vars

(***************************************************************************)
(* FeedClassifier.predict.  The tokenizer and the network are outside the  *)
(* model: what they produce for a batch is probs, one row of scores per    *)
(* title, a score being given in hundredths.  The scores of a row are      *)
(* distinct.                                                               *)
(***************************************************************************)
\* self.threshold (0.4)
threshold == 40

\* self.id2label read from the checkpoint, index 0 first
CheckpointLabels == <<"cs.CV", "cs.LG", "q-bio.BM", "cs.AI", "cs.CL", "math.ST">>

\* self.id2label of a checkpoint without the mapping: label_0, label_1, ...
FallbackLabels == <<"label_0", "label_1", "label_2", "label_3", "label_4", "label_5">>

\* np.argsort(prob): the indices of a row by ascending score
argsort(prob) ==
    [r \in 1..Len(prob) |->
        CHOOSE i \in 1..Len(prob) :
            Cardinality({j \in 1..Len(prob) : prob[j] < prob[i]}) = r - 1]

\* lst[::-1]
Reversed(lst) == [i \in 1..Len(lst) |-> lst[Len(lst) + 1 - i]]

\* lst[:k]
Prefix(lst, k) == SubSeq(lst, 1, IF k < Len(lst) THEN k ELSE Len(lst))

\* PredictionLabel(label=self.id2label[int(idx)], score=float(prob[idx]))
ScoredLabel(id2label, prob, idx) == [label |-> id2label[idx], score |-> prob[idx]]

\* the labels above the threshold, by descending score
predicted_labels(id2label, prob) ==
    LET Above(idx) == prob[idx] > threshold
        pred_indices == SelectSeq(Reversed(argsort(prob)), Above)
    IN  [k \in 1..Len(pred_indices) |-> ScoredLabel(id2label, prob, pred_indices[k])]

\* the top_k labels by descending score
top_labels(id2label, prob, top_k) ==
    LET top_indices == Prefix(Reversed(argsort(prob)), top_k)
    IN  [k \in 1..Len(top_indices) |-> ScoredLabel(id2label, prob, top_indices[k])]

\* predict with the results in the reverse of the submission order
predict_reversed(id2label, titles, probs, return_all_scores, top_k) ==
    IF Len(titles) = 0 THEN <<>>
    ELSE LET n == IF Len(titles) < Len(probs) THEN Len(titles) ELSE Len(probs)
         IN  [i \in 1..n |->
                 [title |-> titles[n + 1 - i],
                  predicted_labels |-> predicted_labels(id2label, probs[n + 1 - i]),
                  top_labels |-> IF return_all_scores
                                 THEN top_labels(id2label, probs[n + 1 - i], top_k)
                                 ELSE NoTopLabels]]

\* predict that fills top_labels whether or not return_all_scores is set
predict_always_top(id2label, titles, probs, return_all_scores, top_k) ==
    IF Len(titles) = 0 THEN <<>>
    ELSE LET n == IF Len(titles) < Len(probs) THEN Len(titles) ELSE Len(probs)
         IN  [i \in 1..n |->
                 [title |-> titles[i],
                  predicted_labels |-> predicted_labels(id2label, probs[i]),
                  top_labels |-> top_labels(id2label, probs[i], top_k)]]

\* predict: one PredictionResult per pair of zip(titles, probs)
predict(id2label, titles, probs, return_all_scores, top_k) ==
    IF Len(titles) = 0 THEN <<>>
    ELSE LET n == IF Len(titles) < Len(probs) THEN Len(titles) ELSE Len(probs)
         IN  [i \in 1..n |->
                 [title |-> titles[i],
                  predicted_labels |-> predicted_labels(id2label, probs[i]),
                  top_labels |-> IF return_all_scores
                                 THEN top_labels(id2label, probs[i], top_k)
                                 ELSE NoTopLabels]]

\* the rows the network produces: each leaves another topic out of the top
\* five, the last has two scores below the threshold
ProbRows ==
    {<<90, 80, 10, 70, 60, 50>>, <<10, 80, 90, 70, 60, 50>>,
     <<80, 10, 90, 70, 60, 30>>}

(***************************************************************************)
(* main(), command "fetch", from the entries fetch_all returned to the     *)
(* push of the emitter (main.py, lines 196 to 216).                        *)
(***************************************************************************)
\* a run handles at most MaxEntries entries
MaxEntries == 3

\* entry.title of an entry without a title
NoneTitle == "<None>"

\* str(entry.title)
str(title) == IF title = NoneTitle THEN "None" ELSE title

\* the entries fetch_all returns: two with the same title, one without a title
Entries ==
    {[title |-> "Vision", link |-> "e1"], [title |-> "Vision", link |-> "e2"],
     [title |-> NoneTitle, link |-> "e3"]}

\* config.interests
Interests ==
    {<<>>, <<<<"Computer Vision">>>>, <<<<"Machine Learning">>, <<"-", "Biology">>>>,
     <<<<"+", "Biology">>, <<"+", "Computer Vision">>>>, <<<<"Robotics">>>>}

InitMain ==
    /\ _feeds = <<>>
    /\ _feed_names = <<>>
    /\ clock = 0
    /\ disk = InitDisk
    /\ call = NoCall
    /\ saved = <<>>
    /\ judged = <<>>
    /\ \E entries \in SeqsUpTo(Entries, MaxEntries), interests \in Interests,
          id2label \in {CheckpointLabels, FallbackLabels} :
           main = [NotRunning EXCEPT !.pc = "entry_titles", !.entries = entries,
                                     !.interests = interests, !.classifier = id2label]

\* entry_titles = [str(entry.title) for entry in entries]
MainTitles ==
    /\ main.pc = "entry_titles"
    /\ main' = [main EXCEPT !.pc = "predict",
                            !.entry_titles = [i \in 1..Len(main.entries) |->
                                                 str(main.entries[i].title)]]
    /\ UNCHANGED <<_feeds, _feed_names, clock, disk, call, saved, judged>>

\* results = classifier.predict(entry_titles, return_all_scores=True, top_k=5)
MainPredict ==
    /\ main.pc = "predict"
    /\ \E probs \in [1..Len(main.entry_titles) -> ProbRows] :
           main' = [main EXCEPT !.pc = "judge",
                                !.predict_calls = Append(@, main.entry_titles),
                                !.results = predict(main.classifier, main.entry_titles,
                                                    probs, TRUE, 5)]
    /\ UNCHANGED <<_feeds, _feed_names, clock, disk, call, saved, judged>>

\* judgments = classifier.judge(classes=config.interests, results=results);
\* an exception of judge ends the run
MainJudge ==
    /\ main.pc = "judge"
    /\ LET r == judge(main.interests, main.results)
       IN  main' = IF r.raised # ""
                   THEN [main EXCEPT !.pc = "done", !.raised = r.raised]
                   ELSE [main EXCEPT !.pc = "filtered_entries",
                                     !.judgments = r.judgments]
    /\ UNCHANGED <<_feeds, _feed_names, clock, disk, call, saved, judged>>

\* [entry for i, entry in enumerate(entries) if judgments[i]]
Filtered(entries, judgments) ==
    LET kept == SelectSeq([i \in 1..Len(entries) |-> i], LAMBDA i : judgments[i])
    IN  [k \in 1..Len(kept) |-> entries[kept[k]]]

MainFilter ==
    /\ main.pc = "filtered_entries"
    /\ main' = [main EXCEPT !.pc = "emit",
                            !.filtered_entries = Filtered(main.entries, main.judgments)]
    /\ UNCHANGED <<_feeds, _feed_names, clock, disk, call, saved, judged>>

\* FeedEmitter(entries=filtered_entries, ...).generate_and_push()
MainEmit ==
    /\ main.pc = "emit"
    /\ main' = [main EXCEPT !.pc = "done", !.pushed = Append(@, main.filtered_entries)]
    /\ UNCHANGED <<_feeds, _feed_names, clock, disk, call, saved, judged>>

NextMain == MainTitles \/ MainPredict \/ MainJudge \/ MainFilter \/ MainEmit

SpecMain == InitMain /\ [][NextMain]_vars

(***************************************************************************)
(* A caller of the classifier: one call of predict, then one call of judge *)
(* on what predict returned.                                               *)
(***************************************************************************)
\* the batches predict is given hold at most MaxTitles titles
MaxTitles == 2

PredictTitles == SeqsUpTo({"Vision", "Proteins"}, MaxTitles)

\* the values of top_k
TopKs == {0, 2, 5}

\* a call of predict that has not run yet
InitPredict ==
    /\ _feeds = <<>>
    /\ _feed_names = <<>>
    /\ clock = 0
    /\ disk = InitDisk
    /\ saved = <<>>
    /\ judged = <<>>
    /\ main = NotRunning
    /\ \E titles \in PredictTitles, id2label \in {CheckpointLabels, FallbackLabels},
          return_all_scores \in BOOLEAN, top_k \in TopKs :
           \E probs \in [1..Len(titles) -> ProbRows] :
               call = [NoCall EXCEPT !.op = "predict", !.id2label = id2label,
                                     !.titles = titles, !.probs = probs,
                                     !.return_all_scores = return_all_scores,
                                     !.top_k = top_k, !.outcome = "called"]

Predict ==
    /\ call.op = "predict"
    /\ call.outcome = "called"
    /\ call' = [call EXCEPT !.outcome = "returned",
                            !.ret = predict(call.id2label, call.titles, call.probs,
                                            call.return_all_scores, call.top_k)]
    /\ UNCHANGED <<_feeds, _feed_names, clock, disk, saved, judged, main>>

\* the caller hands what predict returned, and a specifier list, to judge
JudgePredicted(classes) ==
    /\ call.op = "predict"
    /\ call.outcome = "returned"
    /\ call' = [call EXCEPT !.op = "judge", !.classes = classes,
                            !.results = call.ret, !.outcome = "called", !.ret = <<>>]
    /\ UNCHANGED <<_feeds, _feed_names, clock, disk, saved, judged, main>>

NextPredict ==
    \/ Predict
    \/ \E classes \in Interests : JudgePredicted(classes)
    \/ Judge

SpecPredict == InitPredict /\ [][NextPredict]_vars

(***************************************************************************)
(* entry_parser.parse_entries.  A string of a raw entry is a sequence of   *)
(* tokens (words, single spaces, HTML tags, a DOI reference, a "Published  *)
(* online" note): "" is <<>> and None is NoneName.  A key of a raw entry   *)
(* is a record that says whether the key is present and holds its value.   *)
(***************************************************************************)
Present(value) == [present |-> TRUE, value |-> value]
Absent == [present |-> FALSE, value |-> <<>>]

\* entry.get(key)
DictGet(entry, key) == IF entry[key].present THEN entry[key].value ELSE NoneName

\* _safe_get(entry, key, default)
_safe_get(entry, key, default) ==
    LET value == DictGet(entry, key)
    IN  IF value \notin {NoneName, <<>>} THEN value ELSE default

Tags == {"<p>", "</p>", "<br>"}
DoiRef == "doi:10.1000/x"
PublishedNote == "Published online: 12 March 2024"

RECURSIVE CollapseSpaces(_)
\* re.sub(r"\s{2,}", " ", text)
CollapseSpaces(text) ==
    IF Len(text) < 2 THEN text
    ELSE IF text[1] = " " /\ text[2] = " " THEN CollapseSpaces(Tail(text))
    ELSE <<text[1]>> \o CollapseSpaces(Tail(text))

RECURSIVE LStrip(_)
LStrip(text) ==
    IF Len(text) > 0 /\ text[1] = " " THEN LStrip(Tail(text)) ELSE text

RECURSIVE RStrip(_)
RStrip(text) ==
    IF Len(text) > 0 /\ text[Len(text)] = " "
    THEN RStrip(SubSeq(text, 1, Len(text) - 1)) ELSE text

\* str.strip()
Strip(text) == RStrip(LStrip(text))

\* clean_summary(raw_summary)
clean_summary(raw_summary) ==
    IF raw_summary = <<>> THEN <<>>
    ELSE LET untagged == [i \in 1..Len(raw_summary) |->
                             IF raw_summary[i] \in Tags THEN " " ELSE raw_summary[i]]
             NotNote(t) == t # PublishedNote
             NotDoi(t) == t # DoiRef
         IN  Strip(CollapseSpaces(SelectSeq(SelectSeq(untagged, NotNote), NotDoi)))

\* the date strings dateutil's parser accepts
DateStrings == {<<"2024-03-12">>}

\* _parse_date(date_str): the datetime, or None
_parse_date(date_str) ==
    IF date_str \in {NoneName, <<>>} THEN NoneName
    ELSE IF date_str \in DateStrings THEN <<"datetime">> \o date_str
    ELSE NoneName

RECURSIVE Join(_, _)
\* sep.join(parts)
Join(sep, parts) ==
    IF Len(parts) = 0 THEN <<>>
    ELSE IF Len(parts) = 1 THEN parts[1]
    ELSE parts[1] \o sep \o Join(sep, Tail(parts))

\* _parse_authors(entry): what it raises ("" when it returns) and its value
_parse_authors(entry) ==
    IF entry.authors.present /\ entry.authors.value # <<>>
    THEN LET records == entry.authors.value
             got == [i \in 1..Len(records) |->
                         IF records[i].name.present THEN records[i].name.value ELSE <<>>]
             NonEmpty(n) == n # <<>>
             names == SelectSeq([i \in 1..Len(got) |-> Strip(got[i])], NonEmpty)
         IN  IF \E i \in 1..Len(got) : got[i] = NoneName
             THEN [raised |-> "AttributeError", value |-> <<>>]
             ELSE [raised |-> "",
                   value |-> IF names # <<>> THEN Join(<<", ">>, names) ELSE <<"Unknown">>]
    ELSE IF DictGet(entry, "author") \notin {NoneName, <<>>}
    THEN [raised |-> "", value |-> entry.author.value]
    ELSE [raised |-> "", value |-> <<"Unknown">>]

\* the entry the loop body of parse_entries builds from one item
parse_entry(item, feed) ==
    LET title == _safe_get(item, "title", <<"Untitled Paper">>)
        cleaned == clean_summary(_safe_get(item, "summary", <<>>))
        summary == IF cleaned = <<>> THEN <<"No abstract available">> ELSE cleaned
        published == _safe_get(item, "published", NoneName)
        pub_raw == IF published \notin {NoneName, <<>>} THEN published
                   ELSE _safe_get(item, "updated", NoneName)
        NonEmpty(part) == part # <<>>
    IN  [title |-> title,
         summary |-> summary,
         link |-> _safe_get(item, "link", <<"N/A">>),
         authors |-> _parse_authors(item).value,
         published |-> _parse_date(pub_raw),
         source |-> IF feed.title.present THEN feed.title.value ELSE <<"Unknown Source">>,
         text_for_classification |-> Join(<<" ">>, SelectSeq(<<title, summary>>, NonEmpty))]

\* parse_entries(feed_data): what it raises ("" when it returns) and its list
parse_entries(feed_data) ==
    IF \E i \in 1..Len(feed_data.entries) :
           _parse_authors(feed_data.entries[i]).raised # ""
    THEN [raised |-> "AttributeError", entries |-> <<>>]
    ELSE [raised |-> "",
          entries |-> [i \in 1..Len(feed_data.entries) |->
                          parse_entry(feed_data.entries[i], feed_data.feed)]]

\* the values of the keys of a raw entry
Titles == {Absent, Present(NoneName), Present(<<>>), Present(<<"T">>)}

Summaries ==
    {Absent, Present(<<>>), Present(<<"<br>">>), Present(<<DoiRef>>),
     Present(<<"<p>", "S", " ", " ", PublishedNote, " ", "S", "</p>">>)}

EntryLinks == {Absent, Present(<<>>), Present(<<"L">>)}

\* an author record: without a name, with a null name, with names to trim
AuthorRecord(name) == [name |-> name]

AuthorLists ==
    {Absent, Present(<<>>),
     Present(<<AuthorRecord(Absent)>>),
     Present(<<AuthorRecord(Present(NoneName))>>),
     Present(<<AuthorRecord(Present(<<" ">>))>>),
     Present(<<AuthorRecord(Present(<<" ", "Ann", " ">>)), AuthorRecord(Present(<<>>)),
               AuthorRecord(Present(<<"Bob">>))>>)}

Authors == {Absent, Present(<<>>), Present(<<"Cy">>)}

\* date strings: none, empty, one the parser accepts, one it rejects
Dates == {Absent, Present(<<>>), Present(<<"2024-03-12">>), Present(<<"not a date">>)}

FeedTitles == {Absent, Present(<<"J">>)}

RawItems ==
    [title : Titles, summary : Summaries, link : EntryLinks, authors : AuthorLists,
     author : Authors, published : Dates, updated : Dates]

\* an item that has every key
FullItem ==
    [title |-> Present(<<"T">>), summary |-> Present(<<"S">>), link |-> Present(<<"L">>),
     authors |-> Present(<<AuthorRecord(Present(<<"Ann">>))>>),
     author |-> Present(<<"Cy">>), published |-> Present(<<"2024-03-12">>),
     updated |-> Present(<<"2024-03-12">>)]

\* feed_data: a feed without entries, with one item, with a full item and one more
FeedData ==
    [entries : {<<>>} \cup {<<item>> : item \in RawItems}
                      \cup {<<FullItem, item>> : item \in RawItems},
     feed : [title : FeedTitles]]

\* a call of parse_entries that has not run yet
InitEntries ==
    /\ _feeds = <<>>
    /\ _feed_names = <<>>
    /\ clock = 0
    /\ disk = InitDisk
    /\ saved = <<>>
    /\ judged = <<>>
    /\ main = NotRunning
    /\ \E feed_data \in FeedData :
           call = [NoCall EXCEPT !.op = "parse_entries", !.results = feed_data,
                                 !.outcome = "called"]

ParseEntries ==
    /\ call.op = "parse_entries"
    /\ call.outcome = "called"
    /\ LET r == parse_entries(call.results)
       IN  call' = [call EXCEPT !.outcome = IF r.raised = "" THEN "returned" ELSE r.raised,
                                !.ret = r.entries]
    /\ UNCHANGED <<_feeds, _feed_names, clock, disk, saved, judged, main>>

NextEntries == ParseEntries

SpecEntries == InitEntries /\ [][NextEntries]_vars

(***************************************************************************)
(* What the claims speak of, stated without the operations' definitions.   *)
(***************************************************************************)
\* the positions of the collection that hold a feed named n
FeedsNamed(feeds, n) == {i \in 1..Len(feeds) : IsFeed(feeds[i]) /\ feeds[i].name = n}

\* the positions of the index that hold the name n
IndexEntries(names, n) == {i \in 1..Len(names) : names[i] = n}

\* the index and the collection hold every name equally often
IndexMatches(feeds, names) ==
    \A n \in Names : Cardinality(IndexEntries(names, n)) = Cardinality(FeedsNamed(feeds, n))

\* every stored object is a Feed
OnlyFeeds(feeds) == \A i \in 1..Len(feeds) : IsFeed(feeds[i])

SetOf(lst) == {lst[i] : i \in 1..Len(lst)}

\* two characters that are the same letter, in either case
SameLetter(c, d) == c = d \/ {c, d} = {"a", "A"} \/ {c, d} = {"b", "B"}

\* keyword is a substring of name when letter case is ignored
MatchesIgnoringCase(keyword, name) ==
    \E i \in 0..(Len(name) - Len(keyword)) :
        \A j \in 1..Len(keyword) : SameLetter(keyword[j], name[i + j])

\* the feeds of the collection whose name matches, in collection order
Matching(feeds, keyword) ==
    LET Hit(x) == IsFeed(x) /\ MatchesIgnoringCase(keyword, x.name)
    IN  SelectSeq(feeds, Hit)

\* a link that Feed construction accepts: a str the probe does not answer 410
LinkPasses(link) == link \in {"u200", "u301"}

(***************************************************************************)
(* C1: in every reachable state the name index and the feed collection are *)
(* in 1:1 correspondence: each name occurs as often in _feed_names as      *)
(* among the feed.name of _feeds.                                          *)
(***************************************************************************)
C1_IndexMatchesCollection == IndexMatches(_feeds, _feed_names)

\* what holds instead: the correspondence, while every stored object is a Feed
C1_OnFeedsOnly == OnlyFeeds(_feeds) => IndexMatches(_feeds, _feed_names)

(***************************************************************************)
(* C2: in every reachable state no two feeds of the collection have the    *)
(* same name (names compared exactly, case-sensitively).                   *)
(***************************************************************************)
C2_NamesUnique ==
    \A i, j \in 1..Len(_feeds) :
        (i # j /\ IsFeed(_feeds[i]) /\ IsFeed(_feeds[j]))
            => _feeds[i].name # _feeds[j].name

\* what holds instead: uniqueness, while every stored object is a Feed
C2_OnFeedsOnly == OnlyFeeds(_feeds) => C2_NamesUnique

(***************************************************************************)
(* C3: a change whose new_name is already used by a different feed is      *)
(* rejected as a whole: the collection (link and name of the target        *)
(* included) and the name index stay as they were, also when a new_link    *)
(* came with the call.                                                     *)
(***************************************************************************)
C3_Step ==
    (/\ call'.op = "change"
     /\ call'.new_name # NoneName
     /\ call'.new_name # call'.name
     /\ FeedsNamed(_feeds, call'.new_name) # {})
       => (_feeds' = _feeds /\ _feed_names' = _feed_names)

C3_ConflictingChangeRejected == [][C3_Step]_vars

\* what holds instead: the rejection is complete when no new_link is given
C3_WithoutNewLink == [][call'.new_link = NoneLink => C3_Step]_vars

(***************************************************************************)
(* C4: add(link2, n) when a feed named n already exists is a no-op: the    *)
(* collection and the name index are unchanged and exactly one feed is     *)
(* named n.                                                                *)
(***************************************************************************)
C4_Step ==
    (call'.op = "add" /\ FeedsNamed(_feeds, call'.name) # {})
       => /\ _feeds' = _feeds
          /\ _feed_names' = _feed_names
          /\ Cardinality(FeedsNamed(_feeds', call'.name)) = 1

C4_AddExistingIsNoOp == [][C4_Step]_vars

\* what holds instead: the same, from a collection of Feeds only
C4_OnFeedsOnly == [][OnlyFeeds(_feeds) => C4_Step]_vars

(***************************************************************************)
(* C5: when no feed is named n and the link passes validation,             *)
(* add(link, n) appends one feed with that link and name and with          *)
(* add_time = last_updated, appends n to the name index, and leaves the    *)
(* earlier feeds in place.                                                 *)
(***************************************************************************)
C5_Step ==
    (/\ call'.op = "add"
     /\ FeedsNamed(_feeds, call'.name) = {}
     /\ LinkPasses(call'.link))
       => /\ \E t \in 1..MaxClock :
                 _feeds' = Append(_feeds, Feed(call'.link, call'.name, t, t))
          /\ _feed_names' = Append(_feed_names, call'.name)

C5_AddAppends == [][C5_Step]_vars

\* what holds instead: the same, from a collection of Feeds only
C5_OnFeedsOnly == [][OnlyFeeds(_feeds) => C5_Step]_vars

(***************************************************************************)
(* C6: remove(n) deletes the feed named n, if any, and nothing else: the   *)
(* other feeds keep their fields and order and the name index loses        *)
(* exactly n; when no feed is named n, collection and index are unchanged. *)
(***************************************************************************)
C6_Step ==
    call'.op = "remove"
       => IF FeedsNamed(_feeds, call'.name) # {}
          THEN /\ \E i \in FeedsNamed(_feeds, call'.name) : _feeds' = Pop(_feeds, i)
               /\ \E j \in IndexEntries(_feed_names, call'.name) :
                      _feed_names' = Pop(_feed_names, j)
          ELSE _feeds' = _feeds /\ _feed_names' = _feed_names

C6_RemoveDeletesExactlyNamed == [][C6_Step]_vars

\* what holds instead: the same, from a collection of Feeds only
C6_OnFeedsOnly == [][OnlyFeeds(_feeds) => C6_Step]_vars

(***************************************************************************)
(* C7: round trip: save leaves the registry unchanged, and a load of the   *)
(* file a save wrote yields, in whatever registry it is called on, the set *)
(* of feeds the saving registry held (all four fields equal) with a name   *)
(* index consistent with them.                                             *)
(***************************************************************************)
C7_SaveStep ==
    call'.op = "save" => (_feeds' = _feeds /\ _feed_names' = _feed_names)

C7_LoadStep ==
    (call'.op = "load" /\ call'.filepath = "feeds.pkl" /\ disk["feeds.pkl"].exists)
       => /\ SetOf(_feeds') = SetOf(saved)
          /\ IndexMatches(_feeds', _feed_names')

C7_SaveLoadRoundTrip == [][C7_SaveStep /\ C7_LoadStep]_vars

\* what holds instead: the round trip of a saved collection of Feeds only
C7_OnFeedsOnly == [][C7_SaveStep /\ (OnlyFeeds(saved) => C7_LoadStep)]_vars

(***************************************************************************)
(* C8: a load that does not succeed (missing file, corrupt content) raises *)
(* nothing and leaves the feed collection and the name index as they were. *)
(***************************************************************************)
C8_Unchanged ==
    /\ call'.outcome \in {"file_not_found", "load_error"}
    /\ _feeds' = _feeds
    /\ _feed_names' = _feed_names

C8_FailedLoadChangesNothing ==
    [][(call'.op = "load" /\ call'.outcome # "loaded") => C8_Unchanged]_vars

\* what holds instead: a missing file and bytes that are no pickle change nothing
C8_MissingOrNoPickle ==
    [][(/\ call'.op = "load"
        /\ \/ ~disk[call'.filepath].exists
           \/ ~IsPickle(disk[call'.filepath].bytes)) => C8_Unchanged]_vars

(***************************************************************************)
(* C9: search(keyword) returns exactly the feeds whose name contains the   *)
(* keyword as a substring, letter case ignored, in collection order, and   *)
(* does not modify the registry.                                           *)
(***************************************************************************)
C9_Step ==
    call'.op = "search"
       => /\ call'.outcome = "returned"
          /\ call'.ret = Matching(_feeds, call'.keyword)
          /\ _feeds' = _feeds
          /\ _feed_names' = _feed_names

C9_SearchReturnsMatches == [][C9_Step]_vars

\* what holds instead: the same, on a collection of Feeds only
C9_OnFeedsOnly == [][OnlyFeeds(_feeds) => C9_Step]_vars

\* the topics a specifier list qualifies with ch ("+" or "-")
Qualified(ch, classes) ==
    {Tail(classes[i]) : i \in {k \in 1..Len(classes) : Len(classes[k]) >= 1 /\ classes[k][1] = ch}}

\* the unqualified specifiers of a list
Unqualified(classes) ==
    {classes[i] : i \in {k \in 1..Len(classes) : Len(classes[k]) = 0 \/ classes[k][1] \notin {"+", "-"}}}

\* the full topic names of a result's top labels
MappedNames(result) ==
    {abbr_table[result.top_labels[k].label] : k \in 1..Len(result.top_labels)}

JudgeReturned == call.op = "judge" /\ call.outcome = "returned"

(***************************************************************************)
(* C10: NOT has absolute priority: whenever judge returns, a result whose  *)
(* mapped top-label names contain a '-'-qualified topic is judged False,   *)
(* whatever '+' and unprefixed topics are present too.                     *)
(***************************************************************************)
C10_NotHasPriority ==
    JudgeReturned =>
        \A i \in 1..Len(call.results) :
            (Qualified("-", call.classes) \cap MappedNames(call.results[i]) # {})
                => call.ret[i] = FALSE

\* judge has returned on a list with a NOT, an AND and an OR topic for a
\* result that holds all three
C10_Witness ==
    /\ JudgeReturned
    /\ \E i \in 1..Len(call.results) :
          /\ Qualified("-", call.classes) \cap MappedNames(call.results[i]) # {}
          /\ Qualified("+", call.classes) # {}
          /\ Qualified("+", call.classes) \subseteq MappedNames(call.results[i])
          /\ Unqualified(call.classes) \cap MappedNames(call.results[i]) # {}
          /\ call.ret[i] = FALSE

(***************************************************************************)
(* C11: AND wins over OR: whenever judge returns True for a result, every  *)
(* '+'-qualified topic is among that result's mapped top-label names; a    *)
(* result that misses an AND topic is judged False even when it holds an   *)
(* OR topic.                                                               *)
(***************************************************************************)
C11_AndWinsOverOr ==
    JudgeReturned =>
        \A i \in 1..Len(call.results) :
            call.ret[i] = TRUE
                => Qualified("+", call.classes) \subseteq MappedNames(call.results[i])

\* judge has returned False for a result that holds an OR topic and no NOT
\* topic but misses an AND topic
C11_Witness ==
    /\ JudgeReturned
    /\ \E i \in 1..Len(call.results) :
          /\ Qualified("-", call.classes) \cap MappedNames(call.results[i]) = {}
          /\ ~(Qualified("+", call.classes) \subseteq MappedNames(call.results[i]))
          /\ Unqualified(call.classes) \cap MappedNames(call.results[i]) # {}
          /\ call.ret[i] = FALSE

\* a result passes the NOT and the AND checks of a specifier list
PassesNotAnd(classes, result) ==
    /\ Qualified("-", classes) \cap MappedNames(result) = {}
    /\ Qualified("+", classes) \subseteq MappedNames(result)

(***************************************************************************)
(* C12: for a result that passes the NOT and AND checks, judge returns     *)
(* True iff the OR set is empty or at least one OR topic is among the      *)
(* mapped top-label names: an empty specifier list judges every result     *)
(* True, an OR-only list judges True exactly the results that hold a       *)
(* listed topic.                                                           *)
(***************************************************************************)
C12_OrDecides ==
    JudgeReturned =>
        \A i \in 1..Len(call.results) :
            PassesNotAnd(call.classes, call.results[i])
                => (call.ret[i] =
                        (\/ Unqualified(call.classes) = {}
                         \/ Unqualified(call.classes) \cap MappedNames(call.results[i]) # {}))

\* judge has returned on an OR-only list for a batch of one result that holds
\* a listed topic and one that holds none
C12_Witness ==
    /\ JudgeReturned
    /\ Len(call.classes) > 0
    /\ Qualified("+", call.classes) = {}
    /\ Qualified("-", call.classes) = {}
    /\ \E i, j \in 1..Len(call.results) :
          /\ Unqualified(call.classes) \cap MappedNames(call.results[i]) # {}
          /\ call.ret[i] = TRUE
          /\ Unqualified(call.classes) \cap MappedNames(call.results[j]) = {}
          /\ call.ret[j] = FALSE

\* a call of judge has ended, by a return or by an exception
JudgeDone == call.op = "judge" /\ call.outcome # "called"

\* a specifier without its one leading '+' or '-', if it has one
Stripped(cls) ==
    IF Len(cls) >= 1 /\ cls[1] \in {"+", "-"} THEN Tail(cls) ELSE cls

\* the positions of the specifiers that name no topic of the table
InvalidAt(classes) == {i \in 1..Len(classes) : Stripped(classes[i]) \notin abbr_values}

(***************************************************************************)
(* C13: if any specifier, stripped of at most one leading '+' or '-', is   *)
(* not a full topic name of the table, judge fails the whole call with an  *)
(* error naming the first such specifier in list order and returns no      *)
(* judgments, whatever the batch holds (nothing, or results without        *)
(* top_labels): the list is validated before any result is examined.       *)
(***************************************************************************)
C13_InvalidSpecifierFails ==
    (JudgeDone /\ InvalidAt(call.classes) # {})
        => /\ call.outcome = "ValueError"
           /\ call.name = Stripped(call.classes[Min(InvalidAt(call.classes))])
           /\ call.ret = <<>>

\* judge has failed on a list with two different invalid specifiers, for a
\* batch whose first result has no top_labels
C13_Witness ==
    /\ JudgeDone
    /\ call.outcome = "ValueError"
    /\ \E i, j \in InvalidAt(call.classes) :
          i < j /\ Stripped(call.classes[i]) # Stripped(call.classes[j])
    /\ Len(call.results) > 0
    /\ call.results[1].top_labels = NoTopLabels

\* the positions of the results that have no top_labels
AbsentAt(results) == {i \in 1..Len(results) : results[i].top_labels = NoTopLabels}

\* the positions of the results that have top_labels with a code outside the table
UnknownCodeAt(results) ==
    {i \in 1..Len(results) :
        /\ results[i].top_labels # NoTopLabels
        /\ \E k \in 1..Len(results[i].top_labels) :
               results[i].top_labels[k].label \notin DOMAIN abbr_table}

Relevant(classes, result) ==
    /\ PassesNotAnd(classes, result)
    /\ \/ Unqualified(classes) = {}
       \/ Unqualified(classes) \cap MappedNames(result) # {}

C15_Returned ==
    /\ call.outcome = "returned"
    /\ Len(call.ret) = Len(call.results)
    /\ \A i \in 1..Len(call.results) :
           call.ret[i] = Relevant(call.classes, call.results[i])

(***************************************************************************)
(* C15: for a valid specifier list and a batch in which every result has   *)
(* top_labels, judge returns one boolean per result in the same order:     *)
(* the output is as long as the batch and output[i] depends only on the    *)
(* specifier list and results[i].                                          *)
(***************************************************************************)
C15_OnePerResult ==
    (JudgeDone /\ InvalidAt(call.classes) = {} /\ AbsentAt(call.results) = {})
        => C15_Returned

\* what holds instead: the same, when every label code is in the table
C15_KnownCodes ==
    (/\ JudgeDone
     /\ InvalidAt(call.classes) = {}
     /\ AbsentAt(call.results) = {}
     /\ UnknownCodeAt(call.results) = {})
        => C15_Returned

\* two ended calls of judge were given the same specifier list and batch
SameInputs(a, b) == a.classes = b.classes /\ a.results = b.results

\* two ended calls of judge ended alike: same judgments, or the same error
SameOutput(a, b) == a.outcome = b.outcome /\ a.name = b.name /\ a.ret = b.ret

C16_Step ==
    (call.op = "judge" /\ call.outcome = "called" /\ call'.outcome # "called")
        => /\ call'.classes = call.classes
           /\ call'.results = call.results
           /\ \A k \in 1..Len(judged) :
                  SameInputs(judged[k], call') => SameOutput(judged[k], call')

C17_Step ==
    call'.op = "fetch"
        => /\ _feeds' = _feeds
           /\ _feed_names' = _feed_names
           /\ (FeedsNamed(_feeds, call'.name) = {} /\ ~InList(call'.name, _feed_names))
                  => /\ call'.outcome = "not_found"
                     /\ call'.ret = NoneResult
                     /\ call'.link = NoneLink
           /\ (FeedsNamed(_feeds, call'.name) # {} /\ InList(call'.name, _feed_names))
                  => /\ call'.outcome = "returned"
                     /\ \E i \in FeedsNamed(_feeds, call'.name) :
                            /\ call'.link = _feeds[i].link
                            /\ call'.ret = feedparser_parse(_feeds[i].link)

(***************************************************************************)
(* C17: fetch(name) on a name no feed of the registry has yields None      *)
(* without a call of the fetch collaborator; on a name a feed has, it      *)
(* calls the collaborator with that feed's current link and returns the    *)
(* collaborator's result as it is; the registry is unchanged either way.   *)
(***************************************************************************)
C17_FetchDelegates == [][C17_Step]_vars

\* what holds instead: the same, from a collection of Feeds only
C17_OnFeedsOnly == [][OnlyFeeds(_feeds) => C17_Step]_vars

\* the exceptions a Feed construction can end in
ConstructionErrors == {"TypeError", "ValueError", "AttributeError"}

\* arguments of add that Feed construction rejects: a link or name that is
\* no str, a link the probe reports gone
AddArgsRejected(link, name) ==
    link = IntLink \/ name = IntName \/ link = "u410"

C18_Step ==
    call'.op = "add"
        => /\ (~InList(call'.name, _feed_names) /\ AddArgsRejected(call'.link, call'.name))
                  => call'.outcome \in ConstructionErrors
           /\ call'.outcome \in ConstructionErrors
                  => /\ _feeds' = _feeds
                     /\ _feed_names' = _feed_names
                     /\ ~InList(call'.name, _feed_names')
           /\ (call'.retry /\ ~AddArgsRejected(call'.link, call'.name))
                  => /\ call'.outcome = "added"
                     /\ \E t \in 1..MaxClock :
                            _feeds' = Append(_feeds, Feed(call'.link, call'.name, t, t))
                     /\ _feed_names' = Append(_feed_names, call'.name)

FeedDone == call.op = "Feed" /\ call.outcome # "called"

\* the first of the four arguments, in the order link, name, add_time,
\* last_updated, that has the wrong type; "" when all four are well typed
FirstIllTyped(c) ==
    IF c.link \in {IntLink, NoneLink} THEN "link"
    ELSE IF c.name \in {IntName, NoneName} THEN "name"
    ELSE IF c.add_time \in {StrDate, NoneDate} THEN "add_time"
    ELSE IF c.last_updated \in {StrDate, NoneDate} THEN "last_updated"
    ELSE ""

\* what the claim says of a construction whose arguments are well typed
C19_WellTyped ==
    /\ call.probed
    /\ IF status(call.link) = 410
       THEN call.outcome = "ValueError" /\ call.ret = <<>>
       ELSE /\ call.outcome = "created"
            /\ call.ret = <<Feed(call.link, call.name, call.add_time, call.last_updated)>>
            /\ call.warned = (status(call.link) = 301)

\* what the claim says of a construction with an ill-typed argument
C19_IllTyped ==
    /\ call.outcome = "TypeError"
    /\ call.field = FirstIllTyped(call)
    /\ ~call.probed
    /\ call.ret = <<>>

(***************************************************************************)
(* C19: constructing a Feed fails with a type error when link or name is   *)
(* no string or add_time or last_updated is no timestamp, the first        *)
(* failure in the order link, name, add_time, last_updated being reported, *)
(* and before the link is probed; empty link and name are accepted; with   *)
(* valid types construction fails only when the probe reports 410 (301     *)
(* only warns, any other outcome of the probe succeeds) and the Feed holds *)
(* the four fields as given.                                               *)
(***************************************************************************)
C19_Construction ==
    FeedDone => IF FirstIllTyped(call) # "" THEN C19_IllTyped ELSE C19_WellTyped

\* what holds instead: the same, when the probe's answer carries a status
C19_WithStatus ==
    (FeedDone /\ (FirstIllTyped(call) = "" => status(call.link) # NoStatus))
        => IF FirstIllTyped(call) # "" THEN C19_IllTyped ELSE C19_WellTyped

\* a call of parse_entries has ended, by a return or by an exception
ParseDone == call.op = "parse_entries" /\ call.outcome # "called"

\* a key of a raw entry is missing, null or empty
Blank(field) == ~field.present \/ field.value \in {NoneName, <<>>}

\* the structured author list of a raw entry is missing or empty
NoAuthorList(item) == ~item.authors.present \/ Len(item.authors.value) = 0

\* what the claim says of the entry made from one item
C20_Entry(item, feed, entry) ==
    /\ entry.title = IF Blank(item.title) THEN <<"Untitled Paper">> ELSE item.title.value
    /\ Blank(item.summary) => entry.summary = <<"No abstract available">>
    /\ entry.summary # <<>>
    /\ entry.link = IF Blank(item.link) THEN <<"N/A">> ELSE item.link.value
    /\ entry.authors # <<>>
    /\ (NoAuthorList(item) /\ Blank(item.author)) => entry.authors = <<"Unknown">>
    /\ (NoAuthorList(item) /\ ~Blank(item.author)) => entry.authors = item.author.value
    /\ (Blank(item.published) /\ Blank(item.updated)) => entry.published = NoneName
    /\ entry.published # NoneName
           => entry.published \in {<<"datetime">> \o item.published.value,
                                   <<"datetime">> \o item.updated.value}
    /\ entry.source = IF feed.title.present THEN feed.title.value ELSE <<"Unknown Source">>
    /\ entry.text_for_classification = entry.title \o <<" ">> \o entry.summary

C20_Returned ==
    /\ call.outcome = "returned"
    /\ Len(call.ret) = Len(call.results.entries)
    /\ \A i \in 1..Len(call.ret) :
           C20_Entry(call.results.entries[i], call.results.feed, call.ret[i])

\* an item has an author record whose name is null
HasNullName(item) ==
    /\ item.authors.present
    /\ \E k \in 1..Len(item.authors.value) :
           /\ item.authors.value[k].name.present
           /\ item.authors.value[k].name.value = NoneName

(***************************************************************************)
(* C20: entry normalization is total: for every raw entry shape (missing,  *)
(* empty or present title, summary, link, authors, author, published and   *)
(* updated, author records without a name or with a null name, date        *)
(* strings that cannot be parsed) parse_entries does not fail and returns  *)
(* one entry per item whose title, summary, link, authors, published,      *)
(* source and classification text are the raw values or the defaults.      *)
(***************************************************************************)
C20_ParseEntriesTotal == ParseDone => C20_Returned

\* what holds instead: the same, for feeds without a null author name
C20_WithoutNullNames ==
    (ParseDone /\ \A i \in 1..Len(call.results.entries) :
                      ~HasNullName(call.results.entries[i]))
        => C20_Returned

\* a name is in use when the index or a feed has it
InUse(n) == InList(n, _feed_names) \/ FeedsNamed(_feeds, n) # {}

\* the i-th feed with the supplied fields put in and every other feed as it was
Updated(feeds, i, new_link, new_name) ==
    [k \in 1..Len(feeds) |->
        IF k # i THEN feeds[k]
        ELSE Feed(IF new_link = NoneLink THEN feeds[k].link ELSE new_link,
                  IF new_name = NoneName THEN feeds[k].name ELSE new_name,
                  feeds[k].add_time, feeds[k].last_updated)]

C21_Step ==
    (/\ call'.op = "change"
     /\ FeedsNamed(_feeds, call'.name) # {}
     /\ InList(call'.name, _feed_names)
     /\ call'.new_name # NoneName => ~InUse(call'.new_name))
        => /\ \E i \in FeedsNamed(_feeds, call'.name) :
                  _feeds' = Updated(_feeds, i, call'.new_link, call'.new_name)
           /\ IF call'.new_name = NoneName
              THEN _feed_names' = _feed_names
              ELSE /\ Cardinality(IndexEntries(_feed_names', call'.new_name)) = 1
                   /\ Cardinality(IndexEntries(_feed_names', call'.name))
                          = Cardinality(IndexEntries(_feed_names, call'.name)) - 1
                   /\ \A n \in Names \ {call'.name, call'.new_name} :
                          Cardinality(IndexEntries(_feed_names', n))
                              = Cardinality(IndexEntries(_feed_names, n))

(***************************************************************************)
(* C21: when a feed named name exists and new_name, if supplied, is not in *)
(* use, change(name, new_link, new_name) updates exactly the supplied      *)
(* fields of that one feed in place: it keeps its position, every other    *)
(* feed and the size of the collection are unchanged, and on a rename the  *)
(* old name leaves the index and the new name enters it exactly once.      *)
(***************************************************************************)
C21_ChangeUpdatesInPlace == [][C21_Step]_vars

\* what holds instead: the same, from a collection of Feeds only
C21_OnFeedsOnly == [][OnlyFeeds(_feeds) => C21_Step]_vars

C22_Step ==
    (/\ call'.op = "change"
     /\ \/ call'.new_link = NoneLink /\ call'.new_name = NoneName
        \/ FeedsNamed(_feeds, call'.name) = {})
        => (_feeds' = _feeds /\ _feed_names' = _feed_names)

(***************************************************************************)
(* C22: change leaves the collection and the name index unchanged in both  *)
(* no-op cases: when new_link and new_name are both absent, whether or not *)
(* a feed named name exists, and when no feed is named name, whatever      *)
(* new_link and new_name are (a free new_name included).                   *)
(***************************************************************************)
C22_ChangeNoOps == [][C22_Step]_vars

\* change has been called with a new link and a free new name for a name no
\* feed has, on a registry that holds a feed
C22_Witness ==
    /\ call.op = "change"
    /\ call.new_link # NoneLink
    /\ call.new_name # NoneName
    /\ FeedsNamed(_feeds, call.name) = {}
    /\ ~InUse(call.new_name)
    /\ Len(_feeds) > 0
    /\ OnlyFeeds(_feeds)

\* a call of remove, of change with something to change, or of fetch
NamedLookup(c) ==
    \/ c.op \in {"remove", "fetch"}
    \/ c.op = "change" /\ (c.new_link # NoneLink \/ c.new_name # NoneName)

C23_Step ==
    (NamedLookup(call') /\ ~InUse(call'.name)) => call'.outcome = "not_found"

(***************************************************************************)
(* C23: each of remove, change (with new_link or new_name supplied) and    *)
(* fetch, called with a name that no feed has, reports a not-found         *)
(* condition to the caller and does not raise.                             *)
(***************************************************************************)
C23_NotFoundReported == [][C23_Step]_vars

\* what holds instead: remove and fetch report it, change returns in silence,
\* and none of them raises, from a collection of Feeds only
C23_ChangeSilent ==
    [][(NamedLookup(call') /\ ~InUse(call'.name) /\ OnlyFeeds(_feeds))
          => call'.outcome = IF call'.op = "change" THEN "returned" ELSE "not_found"]_vars

\* a change that renames an existing feed to the name it has
SelfRename(c) ==
    /\ c.op = "change"
    /\ c.new_name = c.name
    /\ FeedsNamed(_feeds, c.name) # {}
    /\ InList(c.name, _feed_names)

C24_Step ==
    SelfRename(call')
        => /\ call'.outcome = "updated"
           /\ \E i \in FeedsNamed(_feeds, call'.name) :
                  _feeds' = Updated(_feeds, i, call'.new_link, NoneName)
           /\ Cardinality(IndexEntries(_feed_names', call'.name))
                  = Cardinality(IndexEntries(_feed_names, call'.name))

(***************************************************************************)
(* C24: a rename is a conflict only when new_name is used by a different   *)
(* feed: change(n, new_link, new_name=n) on an existing feed n is not      *)
(* reported as 'name in use' but is a successful update that applies a     *)
(* supplied new_link and leaves the feed n once in the collection and in   *)
(* the index.                                                              *)
(***************************************************************************)
C24_SelfRenameIsUpdate == [][C24_Step]_vars

\* what holds instead: the call is reported as 'name in use'; a supplied
\* new_link is applied and the index is left alone, from a collection of
\* Feeds only
C24_SelfRenameRejected ==
    [][(SelfRename(call') /\ OnlyFeeds(_feeds))
          => /\ call'.outcome = "in_use"
             /\ \E i \in FeedsNamed(_feeds, call'.name) :
                    _feeds' = Updated(_feeds, i, call'.new_link, NoneName)
             /\ _feed_names' = _feed_names]_vars

\* the registry operations other than fetch
OtherOperations == {"FeedSource", "add", "remove", "change", "search", "save", "load"}

(***************************************************************************)
(* C25: fetch is the only registry operation that invokes the external     *)
(* fetch collaborator (feedparser.parse): no call of add, remove, change,  *)
(* search, save or load, nor the Feed construction they perform, invokes   *)
(* it.                                                                     *)
(***************************************************************************)
C25_OnlyFetchProbes == [][call'.op \in OtherOperations => ~call'.probed]_vars

\* what holds instead: of the other operations only an add that constructs a
\* Feed with a str link invokes it
C25_OnlyFetchAndAdd ==
    [][(call'.op \in OtherOperations /\ call'.probed)
          => /\ call'.op = "add"
             /\ ~InList(call'.name, _feed_names)
             /\ call'.link # IntLink]_vars

\* the positions main's judgments mark True
Kept == {i \in 1..Len(main.judgments) : main.judgments[i]}

\* out is the entries at the positions kept, in the order of entries
IsSelection(out, entries, kept) ==
    \E f \in [1..Len(out) -> 1..Len(entries)] :
        /\ \A a, b \in 1..Len(out) : a < b => f[a] < f[b]
        /\ {f[k] : k \in 1..Len(out)} = kept
        /\ \A k \in 1..Len(out) : out[k] = entries[f[k]]

\* main is past its call of predict
Predicted == main.pc \in {"judge", "filtered_entries", "emit", "done"}

(***************************************************************************)
(* C26: in a pipeline run the titles of all entries are submitted in one   *)
(* batched call of predict; predict returns exactly one result per         *)
(* submitted title, result i carrying title i (no result for no title);    *)
(* and the entries handed to the emitter are exactly the entries whose     *)
(* judgment at the same position is True, in their original order.         *)
(***************************************************************************)
C26_BatchedAlignedFiltered ==
    /\ Len(main.predict_calls) <= 1
    /\ Predicted =>
          /\ Len(main.predict_calls) = 1
          /\ Len(main.predict_calls[1]) = Len(main.entries)
          /\ \A i \in 1..Len(main.entries) :
                 main.predict_calls[1][i] = str(main.entries[i].title)
          /\ Len(main.results) = Len(main.predict_calls[1])
          /\ \A i \in 1..Len(main.results) :
                 main.results[i].title = main.predict_calls[1][i]
    /\ Len(main.pushed) <= 1
    /\ Len(main.pushed) = 1 =>
          /\ Len(main.judgments) = Len(main.entries)
          /\ IsSelection(main.pushed[1], main.entries, Kept)
    /\ (main.pc = "done" /\ main.raised = "") => Len(main.pushed) = 1

\* a run of three entries that emits the first and the third: the second,
\* which has the title of the first, is judged False
C26_Witness ==
    /\ main.pc = "done"
    /\ Len(main.entries) = 3
    /\ main.entries[1].title = main.entries[2].title
    /\ main.entries[1] # main.entries[2]
    /\ main.entries[3].title # main.entries[1].title
    /\ main.judgments = <<TRUE, FALSE, TRUE>>
    /\ main.pushed = <<(<<main.entries[1], main.entries[3]>>)>>

\* predict has returned
PredictReturned == call.op = "predict" /\ call.outcome = "returned"

\* predict filled top_labels on every result exactly when the flag was set
TopLabelsIffFlag ==
    PredictReturned
        => \A i \in 1..Len(call.ret) :
               (call.ret[i].top_labels # NoTopLabels) <=> call.return_all_scores

\* judge, given the output of a call of predict made with the flag, does not
\* end in the assertion on top_labels
FlaggedNeverAsserts ==
    (JudgeDone /\ call.return_all_scores) => call.outcome # "AssertionError"

(***************************************************************************)
(* C27: predict fills top_labels on every result it returns if and only if *)
(* it was called with return_all_scores true; so judge, given the          *)
(* non-empty output of a call of predict made without the flag, always     *)
(* ends in the assertion on top_labels, and judge given the output of a    *)
(* call made with the flag never does.                                     *)
(***************************************************************************)
C27_UnflaggedAlwaysAsserts ==
    /\ TopLabelsIffFlag
    /\ (JudgeDone /\ ~call.return_all_scores /\ Len(call.results) > 0)
           => call.outcome = "AssertionError"
    /\ FlaggedNeverAsserts

\* C27 as it holds: the assertion is reached when the specifier list is
\* valid; an invalid specifier ends the call in the ValueError of the
\* validation, before any result is looked at
C27_UnflaggedAssertsOnValidList ==
    /\ TopLabelsIffFlag
    /\ (JudgeDone /\ ~call.return_all_scores /\ Len(call.results) > 0)
           => IF InvalidAt(call.classes) = {}
              THEN call.outcome = "AssertionError"
              ELSE call.outcome = "ValueError"
    /\ FlaggedNeverAsserts

\* judge has ended in the assertion, with a valid list of two specifiers, on
\* the two results of a call of predict made without the flag
C27_Witness ==
    /\ JudgeDone
    /\ call.outcome = "AssertionError"
    /\ ~call.return_all_scores
    /\ call.results = predict(call.id2label, call.titles, call.probs, FALSE, call.top_k)
    /\ Len(call.results) = 2
    /\ Len(call.classes) = 2
    /\ InvalidAt(call.classes) = {}

\* the timestamps of the stored feeds, by position
Timestamps(feeds) ==
    [i \in 1..Len(feeds) |-> <<feeds[i].add_time, feeds[i].last_updated>>]

\* a call leaves the timestamps of the feeds that stay as they were: remove
\* takes the pair of one feed out, a successful add puts one pair of equal
\* timestamps at the end, every other call leaves all pairs in place
C28_Step ==
    CASE call'.op = "remove" /\ call'.outcome = "removed" ->
             \E i \in 1..Len(_feeds) :
                 /\ _feeds[i].name = call'.name
                 /\ Timestamps(_feeds') = Pop(Timestamps(_feeds), i)
      [] call'.op = "add" /\ call'.outcome = "added" ->
             \E now \in 1..MaxClock :
                 Timestamps(_feeds') = Append(Timestamps(_feeds), <<now, now>>)
      [] call'.op = "FeedSource" -> _feeds' = <<>>
      [] OTHER -> Timestamps(_feeds') = Timestamps(_feeds)

\* every stored feed has the timestamps add gave it
EqualTimestamps ==
    \A i \in 1..Len(_feeds) :
        /\ _feeds[i].add_time = _feeds[i].last_updated
        /\ _feeds[i].add_time \in 1..MaxClock

(***************************************************************************)
(* C28: no registry operation changes the timestamps of an existing feed:  *)
(* change (of link, name or both), remove of another feed, rejected adds   *)
(* and search leave add_time and last_updated as add set them, so          *)
(* add_time = last_updated holds for every feed in every state reachable   *)
(* without load.                                                           *)
(***************************************************************************)
C28_TimestampsKept == []EqualTimestamps /\ [][C28_Step]_vars

\* a feed added at the first reading of the clock has been given a new link
\* and a new name after a second feed was added, and still has its timestamps
C28_Witness ==
    /\ call.op = "change"
    /\ call.outcome = "updated"
    /\ call.new_link # NoneLink
    /\ call.new_name # NoneName
    /\ Len(_feeds) = 2
    /\ _feeds[1].name = call.new_name
    /\ _feeds[1].link = call.new_link
    /\ Timestamps(_feeds) = <<(<<1, 1>>), (<<2, 2>>)>>

(***************************************************************************)
(* C29: add checks the name before it constructs and validates the Feed:   *)
(* an add of a name that is already in use (in the name index) never       *)
(* probes the link and never raises, whether the link is fine, gone (410)  *)
(* or not a string; it reports 'name in use', reads no timestamp and       *)
(* leaves the collection and the index unchanged.                          *)
(***************************************************************************)
C29_Step ==
    (call'.op = "add" /\ InList(call'.name, _feed_names))
        => /\ call'.outcome = "in_use"
           /\ ~call'.probed
           /\ _feeds' = _feeds
           /\ _feed_names' = _feed_names
           /\ clock' = clock

C29_NameCheckedFirst == [][C29_Step]_vars

\* add has been called with a link that is gone for the name of a stored
\* feed, and has only reported the name as in use
C29_Witness ==
    /\ call.op = "add"
    /\ call.link = "u410"
    /\ call.outcome = "in_use"
    /\ ~call.probed
    /\ FeedsNamed(_feeds, call.name) # {}
    /\ InList(call.name, _feed_names)

\* the same for a link that is not a string
C29_WitnessInvalidType ==
    /\ call.op = "add"
    /\ call.link = IntLink
    /\ call.outcome = "in_use"
    /\ InList(call.name, _feed_names)

\* the other reading of 'in use': some stored feed has the name
C29_NamedFeedFirst ==
    [][(call'.op = "add" /\ FeedsNamed(_feeds, call'.name) # {})
          => call'.outcome = "in_use"]_vars

====
